---- MODULE Spec2Model ----
(***************************************************************************)
(* Verification model of the signverse backend: the live announcement      *)
(* queue (live_announcement_service.py), the train announcement            *)
(* orchestrator (train_announcement_service.py) and the ISL video          *)
(* generation pipeline with its temporary/permanent video lifecycle        *)
(* (isl_video_generation.py).                                              *)
(*                                                                         *)
(* Coroutines are modelled with one action per stretch of code between two *)
(* suspension points (awaits that reach the database, the socket server or *)
(* the event loop); the stretches of different coroutines interleave       *)
(* freely, as the asyncio scheduler allows.                                *)
(***************************************************************************)
EXTENDS Integers, Sequences, FiniteSets, TLC

\* ---------------------------------------------------------------- bounds
MaxJobs == 2
MaxClears == 1
MaxVideos == 2
MaxCalls == 1
MaxTicks == 1

JobIds == 1..MaxJobs
VideoIds == 1..MaxVideos
MaxAnnouncements == 2
IslIds == 1..MaxAnnouncements
UserIds == {1, 2}

\* Optional values: <<>> is None, <<v>> is a present value.
None == <<>>
Some(v) == <<v>>

\* ------------------------------------------------ AnnouncementStatus enum
RECEIVED == "received"
PROCESSING == "processing"
GENERATING_VIDEO == "generating_video"
COMPLETED == "completed"
ERROR == "error"

SUPPORTED_MODELS == {"male", "female"}

\* ------------------------------------------------------------------ text
\* A text is a sequence of symbols: a letter run ("train", "Train"), one
\* digit, a blank, a punctuation mark, or a placeholder ("{platform}").
Digits == {"0", "1", "2", "3", "4", "5", "6", "7", "8", "9"}
Blanks == {" "}
Punctuation == {".", ",", "!"}

IsPlaceholder(s) == s \in {"{train_number}", "{train_name}", "{from_station}",
                           "{to_station}", "{from_station_name}", "{to_station_name}",
                           "{start_station}", "{end_station}", "{platform}",
                           "{coach}"}

\* str.lower() on one symbol
Lower(s) ==
    CASE s = "Train" -> "train"
      [] s = "Platform" -> "platform"
      [] s = "Express" -> "express"
      [] s = "Pune" -> "pune"
      [] s = "Mumbai" -> "mumbai"
      [] s = "Go" -> "go"
      [] OTHER -> s

\* re.sub(r'[^\w\s]', '', s) on one symbol: punctuation disappears and the
\* braces of a placeholder that was left in the text are removed.
StripPunct(s) ==
    CASE s \in Punctuation -> <<>>
      [] s = "{coach}" -> <<"coach">>
      [] s = "{platform}" -> <<"platform">>
      [] s = "{train_number}" -> <<"train_number">>
      [] s = "{train_name}" -> <<"train_name">>
      [] s = "{from_station}" -> <<"from_station">>
      [] s = "{to_station}" -> <<"to_station">>
      [] s = "{from_station_name}" -> <<"from_station_name">>
      [] s = "{to_station_name}" -> <<"to_station_name">>
      [] s = "{start_station}" -> <<"start_station">>
      [] s = "{end_station}" -> <<"end_station">>
      [] OTHER -> <<s>>

\* processed_words.extend(...): the pieces, one after the other
RECURSIVE Concat(_)
Concat(seqs) == IF seqs = <<>> THEN <<>> ELSE Head(seqs) \o Concat(Tail(seqs))

\* text.split(): the maximal runs of non-blank symbols, in order
RECURSIVE SplitWords(_, _)
SplitWords(seq, cur) ==
    IF seq = <<>>
    THEN IF cur = <<>> THEN <<>> ELSE <<cur>>
    ELSE IF Head(seq) \in Blanks
         THEN (IF cur = <<>> THEN <<>> ELSE <<cur>>) \o SplitWords(Tail(seq), <<>>)
         ELSE SplitWords(Tail(seq), Append(cur, Head(seq)))

IsDigitWord(w) == w # <<>> /\ \A i \in 1..Len(w) : w[i] \in Digits

SplitDigits(w) == [i \in 1..Len(w) |-> <<w[i]>>]

\* Variant: a number is kept as one token.
ProcessWord_whole(w) == <<w>>

ProcessWord(w) ==
    IF IsDigitWord(w)
    THEN IF Len(w) > 1 THEN SplitDigits(w) ELSE <<w>>
    ELSE <<w>>

parse_text_to_signs(text) ==
    LET lowered == [i \in 1..Len(text) |-> Lower(text[i])]
        cleaned == Concat([i \in 1..Len(lowered) |-> StripPunct(lowered[i])])
        words == SplitWords(cleaned, <<>>)
    IN  Concat([i \in 1..Len(words) |-> ProcessWord(words[i])])

\* text.strip() is empty
IsBlankText(text) == \A i \in 1..Len(text) : text[i] \in Blanks

\* --------------------------------------------------------- sign resolver
Extensions == <<"mp4", "MP4", "avi", "mov">>
Locations == <<"direct", "nested">>

VideoPath(model, loc, sign, ext) ==
    [model |-> model, loc |-> loc, stem |-> sign, ext |-> ext]

\* Variant: the files in the subdirectory are tried first.
possible_files_nested_first(sign, model) ==
    [i \in 1..8 |-> VideoPath(model, Locations[2 - ((i - 1) \div 4)], sign,
                              Extensions[((i - 1) % 4) + 1])]

possible_files(sign, model) ==
    [i \in 1..8 |-> VideoPath(model, Locations[((i - 1) \div 4) + 1], sign,
                              Extensions[((i - 1) % 4) + 1])]

RECURSIVE FirstExisting(_, _)
FirstExisting(cands, files) ==
    IF cands = <<>> THEN None
    ELSE IF Head(cands) \in files THEN Some(Head(cands))
    ELSE FirstExisting(Tail(cands), files)

\* Variant: the missing signs are collected in reverse order.
RECURSIVE get_video_files_for_signs_reversed(_, _, _)
get_video_files_for_signs_reversed(signs, model, files) ==
    IF signs = <<>> THEN [found |-> <<>>, missing |-> <<>>]
    ELSE LET hit == FirstExisting(possible_files(Head(signs), model), files)
             rest == get_video_files_for_signs_reversed(Tail(signs), model, files)
         IN  IF hit # None
             THEN [found |-> <<hit[1]>> \o rest.found, missing |-> rest.missing]
             ELSE [found |-> rest.found, missing |-> rest.missing \o <<Head(signs)>>]

RECURSIVE get_video_files_for_signs(_, _, _)
get_video_files_for_signs(signs, model, files) ==
    IF signs = <<>> THEN [found |-> <<>>, missing |-> <<>>]
    ELSE LET hit == FirstExisting(possible_files(Head(signs), model), files)
             rest == get_video_files_for_signs(Tail(signs), model, files)
         IN  IF hit # None
             THEN [found |-> <<hit[1]>> \o rest.found, missing |-> rest.missing]
             ELSE [found |-> rest.found, missing |-> <<Head(signs)>> \o rest.missing]

\* Variant: the file name with its extension (Path(f).name).
Stem_name(path) == path.stem \o <<".", path.ext>>

Stem(path) == path.stem

\* ------------------------------------------------- clip concatenation
\* The file system of the staging area: staging holds the ids whose
\* {id}.mp4 exists, manifests the ids whose {id}_filelist.txt exists.
\* tool is the outcome of the external ffmpeg run ("ok", "fail", "timeout");
\* partial tells whether a failed run left an output file behind.
\* create_ffmpeg_concat_command: the lines written to {id}_filelist.txt, one
\* "file '<path>'" per clip. The quote escaping changes no path of the sign
\* library: a sign is made of word characters only.
create_ffmpeg_concat_command(video_files) ==
    [i \in 1..Len(video_files) |-> <<"file", video_files[i]>>]

stitch_videos_with_ffmpeg(video_files, vid, tool, partial, staging, manifests) ==
    IF Len(video_files) = 1
    THEN [raised |-> None, staging |-> staging \cup {vid}, manifests |-> manifests,
          filelist |-> None]
    ELSE IF tool = "ok"
         THEN [raised |-> None, staging |-> staging \cup {vid},
               manifests |-> manifests \ {vid},
               filelist |-> Some(create_ffmpeg_concat_command(video_files))]
         ELSE [raised |-> IF tool = "timeout"
                          THEN Some("Video processing timed out")
                          ELSE Some("Video processing failed"),
               staging |-> IF partial THEN staging \cup {vid} ELSE staging,
               manifests |-> manifests \cup {vid},
               filelist |-> Some(create_ffmpeg_concat_command(video_files))]

PreviewUrl(vid) == <<"/isl-video-generation/preview/", vid>>

NoVideoResponse ==
    [success |-> FALSE, temp_video_id |-> None, preview_url |-> None,
     signs_used |-> <<>>, signs_skipped |-> <<>>]

\* Variant: a sign without a clip ends the generation.
generate_isl_video_strict(text, model, vid, env, staging, manifests) ==
    LET signs == parse_text_to_signs(text)
        res == get_video_files_for_signs(signs, model, env.files)
        st == stitch_videos_with_ffmpeg(res.found, vid, env.tool, env.partial,
                                        staging, manifests)
        Fail(detail) == [raised |-> Some(detail), response |-> NoVideoResponse,
                         staging |-> staging, manifests |-> manifests,
                         issued |-> FALSE, found |-> <<>>, filelist |-> None]
    IN  IF model \notin SUPPORTED_MODELS THEN Fail("Unsupported model")
        ELSE IF text = <<>> \/ IsBlankText(text) THEN Fail("Text cannot be empty")
        ELSE IF signs = <<>> THEN Fail("No valid signs found in text")
        ELSE IF ~env.model_dir THEN Fail("Video generation failed: Model directory not found")
        ELSE IF res.found = <<>> \/ res.missing # <<>>
             THEN Fail("No video files found for any signs")
        ELSE IF st.raised # None
             THEN [raised |-> Some("Video generation failed: " \o st.raised[1]),
                   response |-> NoVideoResponse,
                   staging |-> st.staging, manifests |-> st.manifests,
                   issued |-> TRUE, found |-> res.found, filelist |-> st.filelist]
             ELSE [raised |-> None,
                   response |-> [success |-> TRUE, temp_video_id |-> Some(vid),
                                 preview_url |-> Some(PreviewUrl(vid)),
                                 signs_used |-> [i \in 1..Len(res.found) |-> Stem(res.found[i])],
                                 signs_skipped |-> res.missing],
                   staging |-> st.staging, manifests |-> st.manifests,
                   issued |-> TRUE, found |-> res.found, filelist |-> st.filelist]

\* generate_isl_video: result.raised is the detail of the HTTPException the
\* call ends with, or None when it returns result.response.
generate_isl_video(text, model, vid, env, staging, manifests) ==
    LET signs == parse_text_to_signs(text)
        res == get_video_files_for_signs(signs, model, env.files)
        st == stitch_videos_with_ffmpeg(res.found, vid, env.tool, env.partial,
                                        staging, manifests)
        Fail(detail) == [raised |-> Some(detail), response |-> NoVideoResponse,
                         staging |-> staging, manifests |-> manifests,
                         issued |-> FALSE, found |-> <<>>, filelist |-> None]
    IN  IF model \notin SUPPORTED_MODELS THEN Fail("Unsupported model")
        ELSE IF text = <<>> \/ IsBlankText(text) THEN Fail("Text cannot be empty")
        ELSE IF signs = <<>> THEN Fail("No valid signs found in text")
        ELSE IF ~env.model_dir THEN Fail("Video generation failed: Model directory not found")
        ELSE IF res.found = <<>> THEN Fail("No video files found for any signs")
        ELSE IF st.raised # None
             THEN [raised |-> Some("Video generation failed: " \o st.raised[1]),
                   response |-> NoVideoResponse,
                   staging |-> st.staging, manifests |-> st.manifests,
                   issued |-> TRUE, found |-> res.found, filelist |-> st.filelist]
             ELSE [raised |-> None,
                   response |-> [success |-> TRUE, temp_video_id |-> Some(vid),
                                 preview_url |-> Some(PreviewUrl(vid)),
                                 signs_used |-> [i \in 1..Len(res.found) |-> Stem(res.found[i])],
                                 signs_skipped |-> res.missing],
                   staging |-> st.staging, manifests |-> st.manifests,
                   issued |-> TRUE, found |-> res.found, filelist |-> st.filelist]

\* ------------------------------------------------ template substitution
DigitSym(d) == CASE d = 0 -> "0" [] d = 1 -> "1" [] d = 2 -> "2" [] d = 3 -> "3"
                 [] d = 4 -> "4" [] d = 5 -> "5" [] d = 6 -> "6" [] d = 7 -> "7"
                 [] d = 8 -> "8" [] OTHER -> "9"

\* str(platform)
Str(n) == IF n < 10 THEN <<DigitSym(n)>> ELSE <<DigitSym(n \div 10), DigitSym(n % 10)>>

KnownPlaceholders == {"{train_number}", "{train_name}", "{from_station}",
                      "{to_station}", "{from_station_name}", "{to_station_name}",
                      "{start_station}", "{end_station}", "{platform}"}

PlaceholderValue(ph, train_number, train_name, from_station, to_station, platform) ==
    CASE ph = "{train_number}" -> train_number
      [] ph = "{train_name}" -> train_name
      [] ph \in {"{from_station}", "{from_station_name}", "{start_station}"} -> from_station
      [] ph \in {"{to_station}", "{to_station_name}", "{end_station}"} -> to_station
      [] OTHER -> Str(platform)

\* str.replace(placeholder, value): every occurrence in the current text
RECURSIVE Replace(_, _, _)
Replace(text, ph, val) ==
    IF text = <<>> THEN <<>>
    ELSE (IF Head(text) = ph THEN val ELSE <<Head(text)>>) \o Replace(Tail(text), ph, val)

RECURSIVE SubstituteLoop(_, _, _, _, _, _, _)
SubstituteLoop(text, found, train_number, train_name, from_station, to_station, platform) ==
    IF found = <<>> THEN text
    ELSE LET ph == Head(found)
             next == IF ph \in KnownPlaceholders
                     THEN Replace(text, ph, PlaceholderValue(ph, train_number, train_name,
                                                             from_station, to_station, platform))
                     ELSE text
         IN  SubstituteLoop(next, Tail(found), train_number, train_name,
                            from_station, to_station, platform)

substitute_template_placeholders(template_text, train_number, train_name, from_station, to_station, platform) ==
    SubstituteLoop(template_text, SelectSeq(template_text, IsPlaceholder),
                   train_number, train_name, from_station, to_station, platform)

\* ---------------------------------------------------------- orchestrator
FailedResponse(err) ==
    [success |-> FALSE, announcement_id |-> None, generated_text |-> None,
     generated_text_hindi |-> None, generated_text_marathi |-> None,
     generated_text_gujarati |-> None, temp_video_id |-> None,
     preview_url |-> None, error |-> Some(err),
     signs_used |-> <<>>, signs_skipped |-> <<>>]

\* GeneralAnnouncementService.create_announcement: the new row gets the next id
create_announcement(general, data) ==
    Append(general, [id |-> Len(general) + 1, category |-> data.category,
                     model |-> data.model,
                     announcement_text_english |-> data.english,
                     announcement_text_hindi |-> data.hindi,
                     announcement_text_marathi |-> data.marathi,
                     announcement_text_gujarati |-> data.gujarati,
                     isl_video_path |-> None])

\* GeneralAnnouncementService.update_video_path
update_video_path(general, id, video_path) ==
    IF id \in DOMAIN general /\ general[id].id = id
    THEN [general EXCEPT ![id].isl_video_path = Some(video_path)]
    ELSE general

\* Variant: the flag is ignored.
persist_record_always(save, general, data) == create_announcement(general, data)

\* Step 5: the record is created only when save_to_general_announcements is set
persist_record(save, general, data) ==
    IF save THEN create_announcement(general, data) ELSE general

\* Variant: the record is created before the template is looked up.
template_not_found_persist(general, staging, manifests) ==
    [response |-> FailedResponse("No template found for category"), raised |-> None,
     general |-> create_announcement(general,
                     [category |-> "", model |-> "", english |-> <<>>, hindi |-> None,
                      marathi |-> None, gujarati |-> None]),
     staging |-> staging, manifests |-> manifests, issued |-> FALSE]

\* Step 1: no template row for the category; the call returns at once
template_not_found(general, staging, manifests) ==
    [response |-> FailedResponse("No template found for category"), raised |-> None,
     general |-> general, staging |-> staging, manifests |-> manifests,
     issued |-> FALSE]

\* generate_train_announcement(request, save_to_general_announcements).
\* env holds what the call reads from its surroundings: the template row of
\* the category (None when there is none), the translation row of the train,
\* the sign files on disk and the behaviour of the external tool.
generate_train_announcement(request, save, env, general, staging, manifests, vid) ==
    LET template == env.template
        tr == env.translations
        english_text ==
            substitute_template_placeholders(template[1].english, request.train_number,
                request.train_name, request.from_station_name, request.to_station_name,
                request.platform)
        Lang(ttext, name, from, to) ==
            IF ttext # <<>> /\ tr # None
            THEN Some(substitute_template_placeholders(ttext, request.train_number,
                         name, from, to, request.platform))
            ELSE None
        hindi_text == Lang(template[1].hindi, tr[1].train_name_hi,
                           tr[1].from_station_name_hi, tr[1].to_station_name_hi)
        marathi_text == Lang(template[1].marathi, tr[1].train_name_mr,
                             tr[1].from_station_name_mr, tr[1].to_station_name_mr)
        gujarati_text == Lang(template[1].gujarati, tr[1].train_name_gu,
                              tr[1].from_station_name_gu, tr[1].to_station_name_gu)
        \* GeneralAnnouncementCreate requires a non-empty english text
        createFails == save /\ english_text = <<>>
        general1 ==
            persist_record(save, general,
                     [category |-> request.announcement_category, model |-> request.model,
                      english |-> english_text, hindi |-> hindi_text,
                      marathi |-> marathi_text, gujarati |-> gujarati_text])
        announcement == IF save THEN Some(Len(general1)) ELSE None
        video == generate_isl_video(english_text, request.model, vid, env, staging, manifests)
        Unchanged(resp) == [response |-> resp, raised |-> None, general |-> general,
                            staging |-> staging, manifests |-> manifests,
                            issued |-> FALSE]
    IN  IF template = None
        THEN template_not_found(general, staging, manifests)
        ELSE IF createFails
        THEN Unchanged(FailedResponse("Internal error: validation error"))
        ELSE IF video.raised = None
        THEN [raised |-> None,
              response |->
                 [success |-> TRUE, announcement_id |-> announcement,
                  generated_text |-> Some(english_text),
                  generated_text_hindi |-> hindi_text,
                  generated_text_marathi |-> marathi_text,
                  generated_text_gujarati |-> gujarati_text,
                  temp_video_id |-> video.response.temp_video_id,
                  preview_url |-> video.response.preview_url,
                  error |-> None,
                  signs_used |-> video.response.signs_used,
                  signs_skipped |-> video.response.signs_skipped],
              general |-> IF announcement # None
                          THEN update_video_path(general1, announcement[1],
                                                 video.response.preview_url[1])
                          ELSE general1,
              staging |-> video.staging, manifests |-> video.manifests,
              issued |-> video.issued]
        ELSE \* generate_isl_video raised: the handler reads announcement.id
             IF announcement = None
             THEN [raised |-> video.raised,
                   response |-> FailedResponse(
                       "Internal error: 'NoneType' object has no attribute 'id'"),
                   general |-> general1, staging |-> video.staging,
                   manifests |-> video.manifests, issued |-> video.issued]
             ELSE [raised |-> video.raised,
                   response |->
                      [success |-> TRUE, announcement_id |-> announcement,
                       generated_text |-> Some(english_text),
                       generated_text_hindi |-> hindi_text,
                       generated_text_marathi |-> marathi_text,
                       generated_text_gujarati |-> gujarati_text,
                       temp_video_id |-> None, preview_url |-> None,
                       error |-> Some("Announcement created but video generation failed: "
                                      \o video.raised[1]),
                       signs_used |-> <<>>, signs_skipped |-> <<>>],
                   general |-> general1, staging |-> video.staging,
                   manifests |-> video.manifests, issued |-> video.issued]

\* POST /train-announcements/generate: the service is called with its default
\* save_to_general_announcements=True; when its response says success the
\* endpoint calls generate_isl_video itself with the generated text and copies
\* the video fields of that answer into the response.
\* a is what the service call has returned and done, vid the next free video id.
train_announcements_generate(request, env, a, vid) ==
    LET vid2 == IF a.issued THEN vid + 1 ELSE vid
        v == generate_isl_video(a.response.generated_text[1], request.model, vid2, env,
                                a.staging, a.manifests)
    IN  IF ~a.response.success
        THEN [status |-> 400, response |-> a.response, general |-> a.general,
              staging |-> a.staging, manifests |-> a.manifests,
              next |-> vid2]
        ELSE [status |-> 200,
              response |->
                  IF v.raised = None
                  THEN [a.response EXCEPT !.temp_video_id = v.response.temp_video_id,
                                          !.preview_url = v.response.preview_url,
                                          !.signs_used = v.response.signs_used,
                                          !.signs_skipped = v.response.signs_skipped]
                  ELSE [a.response EXCEPT !.error =
                           Some("Announcement created but video generation failed: "
                                \o v.raised[1])],
              general |-> a.general, staging |-> v.staging, manifests |-> v.manifests,
              next |-> IF v.issued THEN vid2 + 1 ELSE vid2]

\* ------------------------------------------------------- inputs of calls
ValidTrainNumber == <<"1", "2", "3", "4", "5">>
ShortTrainNumber == <<"1", "2", "3">>

\* LiveAnnouncementRequest: train_number is any string, platform_number is
\* in 1..20, ai_avatar_model is male or female.
LiveRequests ==
    [train_number : {ValidTrainNumber, ShortTrainNumber},
     train_name : {<<"Express">>},
     from_station : {<<"Pune">>},
     to_station : {<<"Mumbai">>},
     platform_number : {5},
     announcement_category : {"Arriving"},
     ai_avatar_model : {"male"}]

\* TrainAnnouncementRequest: train_number has exactly 5 characters, platform
\* is in 1..20, model matches male|female.
ValidTrainRequest(r) ==
    /\ Len(r.train_number) = 5
    /\ r.platform \in 1..20
    /\ r.model \in SUPPORTED_MODELS

TrainRequests ==
    [train_number : {ValidTrainNumber},
     train_name : {<<"Express">>},
     from_station_name : {<<"Pune">>},
     to_station_name : {<<"Mumbai">>},
     platform : {5, 12},
     announcement_category : {"Arriving"},
     model : {"female"},
     user_id : {1}]

\* Rows the orchestrator can find in the template and translation tables.
Template1 ==
    [english |-> <<"Train", " ", "{train_number}", " ", "Platform", " ", "{platform}", ".">>,
     hindi |-> <<"gaadi", " ", "{train_name}", " ", "{coach}">>,
     marathi |-> <<>>,
     gujarati |-> <<"{start_station}", " ", "{end_station}">>]

Translation1 ==
    [train_name_hi |-> <<"express_hi">>, from_station_name_hi |-> <<"pune_hi">>,
     to_station_name_hi |-> <<"mumbai_hi">>,
     train_name_mr |-> <<"express_mr">>, from_station_name_mr |-> <<"pune_mr">>,
     to_station_name_mr |-> <<"mumbai_mr">>,
     train_name_gu |-> <<"express_gu">>, from_station_name_gu |-> <<"pune_gu">>,
     to_station_name_gu |-> <<"mumbai_gu">>]

\* Sign libraries on disk.
SignWords == {<<"train">>, <<"platform">>, <<"1">>, <<"2">>, <<"3">>, <<"4">>, <<"5">>}

FilesFull == {VideoPath(m, "direct", w, "mp4") : m \in SUPPORTED_MODELS, w \in SignWords}
FilesOne == {VideoPath(m, "nested", <<"train">>, "avi") : m \in SUPPORTED_MODELS}
FilesNone == {}

Envs ==
    [template : {None, Some(Template1)},
     translations : {None, Some(Translation1)},
     files : {FilesFull, FilesOne, FilesNone},
     tool : {"ok", "fail", "timeout"},
     partial : BOOLEAN,
     model_dir : BOOLEAN]

\* The surroundings the live queue's task is run against: one per outcome of
\* the orchestrator (no template, video generated, no sign file, tool failure).
LiveEnvs ==
    {e \in Envs :
        /\ e.model_dir /\ ~e.partial /\ e.tool # "timeout"
        /\ e.translations = None
        /\ \/ e.template = None /\ e.files = FilesFull /\ e.tool = "ok"
           \/ e.template # None /\ e.files = FilesFull
           \/ e.template # None /\ e.files = FilesNone /\ e.tool = "ok"}

\* The surroundings the direct calls are run against: each way the
\* orchestrator and the video generation can end, with and without
\* translation data.
OrchEnvs ==
    {e \in Envs :
        \/ e.template = None /\ e.translations = None /\ e.files = FilesFull
              /\ e.tool = "ok" /\ ~e.partial /\ e.model_dir
        \/ e.template # None /\ e.translations # None /\ e.files = FilesFull
              /\ e.tool = "ok" /\ ~e.partial /\ e.model_dir
        \/ e.template # None /\ e.translations = None /\ e.files = FilesFull
              /\ (e.partial => e.tool = "fail") /\ e.model_dir
        \/ e.template # None /\ e.translations = None /\ e.files # FilesFull
              /\ e.tool = "ok" /\ ~e.partial /\ e.model_dir
        \/ e.template # None /\ e.translations = None /\ e.files = FilesNone
              /\ e.tool = "ok" /\ ~e.partial /\ ~e.model_dir}

\* ------------------------------------------------------------------ state
VARIABLES
    stored,         \* announcement ids of the rows of live_announcements
    rec,            \* the columns of each row
    req,            \* the request each announcement id was created from
    queue,          \* LiveAnnouncementService.processing_queue
    is_processing,  \* LiveAnnouncementService.is_processing
    sub_pc,         \* position of the add_announcement call of each id
    w_pc,           \* position of the _process_queue task each call created
    w_job,          \* announcement_id the task is working on (0: none)
    w_resp,         \* response of generate_train_announcement held by the task
    clr_pc,         \* position of the running clear_live_announcements call
    clears,         \* number of clear calls made
    recorded,       \* per id, the statuses written to its row, in order
    published,      \* per id, the statuses emitted on the socket, in order
    superseded,     \* ids that were in the queue when a later submit cleared
    interrupted,    \* ids whose row was deleted while a task was working on them
    general,        \* rows of general_announcements, by id
    staging,        \* ids with a file {id}.mp4 in TEMP_VIDEOS_DIR
    manifests,      \* ids with a file {id}_filelist.txt in TEMP_VIDEOS_DIR
    permanent,      \* files under FINAL_VIDEOS_DIR
    nextVid,        \* next unused temporary video id
    clock,          \* wall clock, in seconds
    calls,          \* number of direct pipeline calls made
    isl_rows,       \* rows of isl_announcements, by id (None: no such row)
    last            \* the last direct pipeline call: its inputs and outcome

vars == <<stored, rec, req, queue, is_processing, sub_pc, w_pc, w_job, w_resp,
          clr_pc, clears, recorded, published, superseded, interrupted,
          general, staging, manifests, permanent, nextVid, clock, calls, isl_rows,
          last>>

liveVars == <<stored, rec, req, queue, is_processing, sub_pc, w_pc, w_job, w_resp,
              clr_pc, clears, recorded, published, superseded, interrupted>>

fileVars == <<staging, manifests, permanent, nextVid>>

NoRequest ==
    [train_number |-> <<>>, train_name |-> <<>>, from_station |-> <<>>,
     to_station |-> <<>>, platform_number |-> 0, announcement_category |-> "",
     ai_avatar_model |-> ""]

NoRow == [status |-> "", progress_percentage |-> None, video_url |-> None,
          error_message |-> None, is_active |-> FALSE]

NoResponse == FailedResponse("")

NoEnv == [template |-> None, translations |-> None, files |-> {}, tool |-> "ok",
          partial |-> FALSE, model_dir |-> TRUE]

\* inputs and outputs of a call of one step of the video pipeline
NoPipe == [text |-> <<>>, model |-> "", files |-> {}, env |-> NoEnv,
           request |-> None, signs |-> <<>>, found |-> <<>>, missing |-> <<>>,
           filelist |-> None, substituted |-> <<>>]

NoLast ==
    [op |-> "none", id |-> 0, user |-> 0, status |-> 0, save |-> FALSE,
     template |-> None, raised |-> None, response |-> NoResponse, pipe |-> NoPipe]

InitWith(rows) ==
    /\ stored = {}
    /\ rec = [j \in JobIds |-> NoRow]
    /\ req = [j \in JobIds |-> NoRequest]
    /\ queue = <<>>
    /\ is_processing = FALSE
    /\ sub_pc = [j \in JobIds |-> "idle"]
    /\ w_pc = [j \in JobIds |-> "none"]
    /\ w_job = [j \in JobIds |-> 0]
    /\ w_resp = [j \in JobIds |-> NoResponse]
    /\ clr_pc = "idle"
    /\ clears = 0
    /\ recorded = [j \in JobIds |-> <<>>]
    /\ published = [j \in JobIds |-> <<>>]
    /\ superseded = {}
    /\ interrupted = {}
    /\ general = rows
    /\ staging = {}
    /\ manifests = {}
    /\ permanent = {}
    /\ nextVid = 1
    /\ clock = 0
    /\ calls = 0
    /\ isl_rows = [i \in IslIds |-> None]
    /\ last = NoLast

Init == InitWith(<<>>)

\* A row of general_announcements left by an earlier request.
ExistingRow ==
    [id |-> 1, category |-> "Arriving", model |-> "male",
     announcement_text_english |-> <<"Train", " ", "9", " ", "Platform", " ", "2", ".">>,
     announcement_text_hindi |-> None, announcement_text_marathi |-> None,
     announcement_text_gujarati |-> None, isl_video_path |-> None]

InitOrch == \E rows \in {<<>>, <<ExistingRow>>} : InitWith(rows)

\* ------------------------------------------------- live announcement queue
\* Rows a task is working on: selected by _process_announcement and not yet
\* past their last status update.
InFlightPcs == {"processing", "build", "generate", "terminal", "inner_error",
                "outer_error"}

InFlight == {w_job[w] : w \in {x \in JobIds : w_pc[x] \in InFlightPcs}}

InQueue == {queue[i] : i \in 1..Len(queue)}

\* the rows with is_active == True
ActiveRows(rows, r) == {j \in rows : r[j].is_active}

\* Variant: the DELETE statement matches no row.
clear_existing_announcements_keep(rows, r) == rows

\* delete(LiveAnnouncementModel).where(is_active == True)
clear_existing_announcements(rows, r) == rows \ ActiveRows(rows, r)

\* the loop that empties processing_queue with get_nowait()
DrainQueue(q) == <<>>

\* Rows that are deleted no longer have columns.
DropRows(r, rows) == [j \in JobIds |-> IF j \in rows THEN NoRow ELSE r[j]]

\* add_announcement, first stretch: a fresh uuid4 is drawn and
\* _clear_existing_announcements() issues its DELETE statement
SubmitClear(j, r) ==
    /\ sub_pc[j] = "idle"
    /\ \A k \in JobIds : k < j => sub_pc[k] # "idle"
    /\ req' = [req EXCEPT ![j] = r]
    /\ stored' = clear_existing_announcements(stored, rec)
    /\ rec' = DropRows(rec, stored \ stored')
    /\ superseded' = superseded \cup (InQueue \cap ActiveRows(stored, rec))
    /\ interrupted' = interrupted \cup (InFlight \cap ActiveRows(stored, rec))
    /\ sub_pc' = [sub_pc EXCEPT ![j] = "insert"]
    /\ UNCHANGED <<queue, is_processing, w_pc, w_job, w_resp, clr_pc,
                   clears, recorded, published, general, fileVars, clock, calls, isl_rows, last>>

\* after the commit of the DELETE: the queue is emptied, the new row is added
\* and committed with status RECEIVED
SubmitInsert(j) ==
    /\ sub_pc[j] = "insert"
    /\ queue' = DrainQueue(queue)
    /\ stored' = stored \cup {j}
    /\ rec' = [rec EXCEPT ![j] = [status |-> RECEIVED, progress_percentage |-> None,
                                  video_url |-> None, error_message |-> None,
                                  is_active |-> TRUE]]
    /\ recorded' = [recorded EXCEPT ![j] = Append(@, RECEIVED)]
    /\ sub_pc' = [sub_pc EXCEPT ![j] = "put"]
    /\ UNCHANGED <<req, is_processing, w_pc, w_job, w_resp, clr_pc, clears,
                   published, superseded, interrupted, general, fileVars, clock,
                   calls, isl_rows, last>>

\* Variant: the id is put on the queue and nothing is emitted.
SubmitPut_silent(j) ==
    /\ sub_pc[j] = "put"
    /\ queue' = Append(queue, j)
    /\ sub_pc' = [sub_pc EXCEPT ![j] = "start"]
    /\ UNCHANGED <<stored, rec, req, is_processing, w_pc, w_job, w_resp, clr_pc,
                   clears, recorded, published, superseded, interrupted, general,
                   fileVars, clock, calls, isl_rows, last>>

\* after the refresh: processing_queue.put and the 'announcement_received' emit
SubmitPut(j) ==
    /\ sub_pc[j] = "put"
    /\ queue' = Append(queue, j)
    /\ published' = [published EXCEPT ![j] = Append(@, RECEIVED)]
    /\ sub_pc' = [sub_pc EXCEPT ![j] = "start"]
    /\ UNCHANGED <<stored, rec, req, is_processing, w_pc, w_job, w_resp, clr_pc,
                   clears, recorded, superseded, interrupted, general, fileVars,
                   clock, calls, isl_rows, last>>

\* after the emit: if not self.is_processing: asyncio.create_task(_process_queue())
SubmitStart(j) ==
    /\ sub_pc[j] = "start"
    /\ w_pc' = IF ~is_processing THEN [w_pc EXCEPT ![j] = "scheduled"] ELSE w_pc
    /\ sub_pc' = [sub_pc EXCEPT ![j] = "done"]
    /\ UNCHANGED <<stored, rec, req, queue, is_processing, w_job, w_resp, clr_pc,
                   clears, recorded, published, superseded, interrupted,
                   general, fileVars, clock, calls, isl_rows, last>>

\* _update_status: the row is looked up by announcement_id; when it is gone
\* the call returns without writing or emitting anything.
update_status(j, status, progress, video_url, error_message) ==
    IF j \in stored
    THEN /\ rec' = [rec EXCEPT ![j] =
                      [status |-> status,
                       progress_percentage |-> IF progress # None THEN progress
                                               ELSE @.progress_percentage,
                       video_url |-> IF video_url # None THEN video_url ELSE @.video_url,
                       error_message |-> IF error_message # None THEN error_message
                                         ELSE @.error_message,
                       is_active |-> @.is_active]]
         /\ recorded' = [recorded EXCEPT ![j] = Append(@, status)]
         /\ published' = [published EXCEPT ![j] = Append(@, status)]
    ELSE UNCHANGED <<rec, recorded, published>>

\* _process_queue: the test of the while loop; the task takes the next id or
\* leaves through the finally clause.
LoopNext(w, ip) ==
    /\ w_resp' = [w_resp EXCEPT ![w] = NoResponse]
    /\ IF queue = <<>>
      THEN /\ is_processing' = FALSE
           /\ w_pc' = [w_pc EXCEPT ![w] = "finished"]
           /\ w_job' = [w_job EXCEPT ![w] = 0]
           /\ UNCHANGED queue
      ELSE /\ is_processing' = ip
           /\ w_pc' = [w_pc EXCEPT ![w] = "select"]
           /\ w_job' = [w_job EXCEPT ![w] = Head(queue)]
           /\ queue' = Tail(queue)

\* the task created by add_announcement gets to run
WorkerStart(w) ==
    /\ w_pc[w] = "scheduled"
    /\ LoopNext(w, TRUE)
    /\ UNCHANGED <<stored, rec, req, sub_pc, clr_pc, clears, recorded,
                   published, superseded, interrupted, general, fileVars, clock,
                   calls, isl_rows, last>>

\* _process_announcement: the SELECT of the row
WorkerSelect(w) ==
    /\ w_pc[w] = "select"
    /\ IF w_job[w] \in stored
       THEN /\ w_pc' = [w_pc EXCEPT ![w] = "processing"]
            /\ UNCHANGED <<queue, is_processing, w_job, w_resp>>
       ELSE LoopNext(w, is_processing)
    /\ UNCHANGED <<stored, rec, req, sub_pc, clr_pc, clears, recorded,
                   published, superseded, interrupted, general, fileVars, clock,
                   calls, isl_rows, last>>

\* _update_status(PROCESSING, 10)
WorkerProcessing(w) ==
    /\ w_pc[w] = "processing"
    /\ update_status(w_job[w], PROCESSING, Some(10), None, None)
    /\ w_pc' = [w_pc EXCEPT ![w] = "build"]
    /\ UNCHANGED <<stored, req, queue, is_processing, sub_pc, w_job, w_resp, clr_pc,
                   clears, superseded, interrupted, general, fileVars, clock,
                   calls, isl_rows, last>>

\* TrainAnnouncementRequest(...) built from the row
ToTrainRequest(r) ==
    [train_number |-> r.train_number, train_name |-> r.train_name,
     from_station_name |-> r.from_station, to_station_name |-> r.to_station,
     platform |-> r.platform_number,
     announcement_category |-> r.announcement_category,
     model |-> r.ai_avatar_model, user_id |-> 1]

\* the request is built; a validation error leaves the try block, otherwise
\* _update_status(GENERATING_VIDEO, 50)
WorkerBuild(w) ==
    /\ w_pc[w] = "build"
    /\ IF ValidTrainRequest(ToTrainRequest(req[w_job[w]]))
       THEN /\ update_status(w_job[w], GENERATING_VIDEO, Some(50), None, None)
            /\ w_pc' = [w_pc EXCEPT ![w] = "generate"]
       ELSE /\ w_pc' = [w_pc EXCEPT ![w] = "outer_error"]
            /\ UNCHANGED <<rec, recorded, published>>
    /\ UNCHANGED <<stored, req, queue, is_processing, sub_pc, w_job, w_resp, clr_pc,
                   clears, superseded, interrupted, general, fileVars, clock,
                   calls, isl_rows, last>>

\* generate_train_announcement(train_request, save_to_general_announcements=False)
WorkerGenerate(w, env) ==
    /\ w_pc[w] = "generate"
    /\ \E res \in {generate_train_announcement(ToTrainRequest(req[w_job[w]]), FALSE, env,
                                                general, staging, manifests, nextVid)} :
           /\ w_resp' = [w_resp EXCEPT ![w] = res.response]
           /\ general' = res.general
           /\ staging' = res.staging
           /\ manifests' = res.manifests
           /\ nextVid' = IF res.issued THEN nextVid + 1 ELSE nextVid
    /\ w_pc' = [w_pc EXCEPT ![w] = "terminal"]
    /\ UNCHANGED <<stored, rec, req, queue, is_processing, sub_pc, w_job, clr_pc,
                   clears, recorded, published, superseded, interrupted, permanent,
                   clock, calls, isl_rows, last>>

\* the status the task settles on for a response
TerminalStatus(response) ==
    IF response.success /\ response.preview_url # None THEN COMPLETED ELSE ERROR

\* Variant: the status message is passed where the error string belongs.
ErrorMessage_generic(response) == Some("Failed to generate ISL video")

ErrorMessage(response) ==
    IF response.error # None THEN response.error
    ELSE Some("Unknown error during ISL generation")

\* _update_status(COMPLETED, 100, video_url) or _update_status(ERROR, error_message)
WorkerTerminal(w) ==
    /\ w_pc[w] = "terminal"
    /\ IF TerminalStatus(w_resp[w]) = COMPLETED
       THEN update_status(w_job[w], COMPLETED, Some(100), w_resp[w].preview_url, None)
       ELSE update_status(w_job[w], ERROR, None, None, ErrorMessage(w_resp[w]))
    /\ LoopNext(w, is_processing)
    /\ UNCHANGED <<stored, req, sub_pc, clr_pc, clears, superseded,
                   interrupted, general, fileVars, clock, calls, isl_rows, last>>

\* the outer except clause: _update_status(ERROR, error_message=str(e))
WorkerOuterError(w) ==
    /\ w_pc[w] = "outer_error"
    /\ update_status(w_job[w], ERROR, None, None, Some("validation error for TrainAnnouncementRequest"))
    /\ LoopNext(w, is_processing)
    /\ UNCHANGED <<stored, req, sub_pc, clr_pc, clears, superseded,
                   interrupted, general, fileVars, clock, calls, isl_rows, last>>

\* clear_live_announcements: clear_all_announcements(), the DELETE statement
ClearCall ==
    /\ clr_pc = "idle"
    /\ clears < MaxClears
    /\ stored' = clear_existing_announcements(stored, rec)
    /\ rec' = DropRows(rec, stored \ stored')
    /\ interrupted' = interrupted \cup (InFlight \cap ActiveRows(stored, rec))
    /\ clr_pc' = "drain"
    /\ clears' = clears + 1
    /\ UNCHANGED <<req, queue, is_processing, sub_pc, w_pc, w_job, w_resp,
                   recorded, published, superseded, general, fileVars, clock,
                   calls, isl_rows, last>>

\* clear_live_announcements: after the commit the endpoint empties the queue
ClearDrain ==
    /\ clr_pc = "drain"
    /\ queue' = DrainQueue(queue)
    /\ clr_pc' = "idle"
    /\ UNCHANGED <<stored, rec, req, is_processing, sub_pc, w_pc, w_job, w_resp,
                   clears, recorded, published, superseded, interrupted,
                   general, fileVars, clock, calls, isl_rows, last>>

Next ==
    \/ \E j \in JobIds, r \in LiveRequests : SubmitClear(j, r)
    \/ \E j \in JobIds : SubmitInsert(j)
    \/ \E j \in JobIds : SubmitPut(j)
    \/ \E j \in JobIds : SubmitStart(j)
    \/ \E w \in JobIds : WorkerStart(w)
    \/ \E w \in JobIds : WorkerSelect(w)
    \/ \E w \in JobIds : WorkerProcessing(w)
    \/ \E w \in JobIds : WorkerBuild(w)
    \/ \E w \in JobIds, env \in LiveEnvs : WorkerGenerate(w, env)
    \/ \E w \in JobIds : WorkerTerminal(w)
    \/ \E w \in JobIds : WorkerOuterError(w)
    \/ ClearCall
    \/ ClearDrain

Spec == Init /\ [][Next]_vars

\* ------------------------------------- failing status updates of a task
\* _update_status raises after it has found the row: "commit" when
\* db.commit() fails (nothing is written, nothing is emitted), "emit" when
\* sio.emit() fails (the row is written, nothing is emitted).
Faults == {"commit", "emit"}

update_status_raises(j, status, progress, video_url, error_message, fault) ==
    /\ j \in stored
    /\ IF fault = "emit"
       THEN /\ rec' = [rec EXCEPT ![j] =
                         [status |-> status,
                          progress_percentage |-> IF progress # None THEN progress
                                                  ELSE @.progress_percentage,
                          video_url |-> IF video_url # None THEN video_url
                                        ELSE @.video_url,
                          error_message |-> IF error_message # None THEN error_message
                                            ELSE @.error_message,
                          is_active |-> @.is_active]]
            /\ recorded' = [recorded EXCEPT ![j] = Append(@, status)]
       ELSE UNCHANGED <<rec, recorded>>
    /\ UNCHANGED published

\* _update_status(PROCESSING, 10) raises: the outer except clause is next
WorkerProcessingFails(w, fault) ==
    /\ w_pc[w] = "processing"
    /\ update_status_raises(w_job[w], PROCESSING, Some(10), None, None, fault)
    /\ w_pc' = [w_pc EXCEPT ![w] = "outer_error"]
    /\ UNCHANGED <<stored, req, queue, is_processing, sub_pc, w_job, w_resp, clr_pc,
                   clears, superseded, interrupted, general, fileVars, clock,
                   calls, isl_rows, last>>

\* _update_status(GENERATING_VIDEO, 50) raises: the outer except clause is next
WorkerBuildFails(w, fault) ==
    /\ w_pc[w] = "build"
    /\ ValidTrainRequest(ToTrainRequest(req[w_job[w]]))
    /\ update_status_raises(w_job[w], GENERATING_VIDEO, Some(50), None, None, fault)
    /\ w_pc' = [w_pc EXCEPT ![w] = "outer_error"]
    /\ UNCHANGED <<stored, req, queue, is_processing, sub_pc, w_job, w_resp, clr_pc,
                   clears, superseded, interrupted, general, fileVars, clock,
                   calls, isl_rows, last>>

\* the _update_status(COMPLETED ...) or _update_status(ERROR ...) of the inner
\* try block raises: its except clause is next
WorkerTerminalFails(w, fault) ==
    /\ w_pc[w] = "terminal"
    /\ IF TerminalStatus(w_resp[w]) = COMPLETED
       THEN update_status_raises(w_job[w], COMPLETED, Some(100), w_resp[w].preview_url,
                                 None, fault)
       ELSE update_status_raises(w_job[w], ERROR, None, None, ErrorMessage(w_resp[w]),
                                 fault)
    /\ w_pc' = [w_pc EXCEPT ![w] = "inner_error"]
    /\ UNCHANGED <<stored, req, queue, is_processing, sub_pc, w_job, w_resp, clr_pc,
                   clears, superseded, interrupted, general, fileVars, clock,
                   calls, isl_rows, last>>

\* the inner except clause: _update_status(ERROR, error_message=str(e))
WorkerInnerError(w) ==
    /\ w_pc[w] = "inner_error"
    /\ update_status(w_job[w], ERROR, None, None, Some("exception in _update_status"))
    /\ LoopNext(w, is_processing)
    /\ UNCHANGED <<stored, req, sub_pc, clr_pc, clears, superseded,
                   interrupted, general, fileVars, clock, calls, isl_rows, last>>

\* the _update_status of the inner except clause raises: the outer one is next
WorkerInnerErrorFails(w, fault) ==
    /\ w_pc[w] = "inner_error"
    /\ update_status_raises(w_job[w], ERROR, None, None,
                            Some("exception in _update_status"), fault)
    /\ w_pc' = [w_pc EXCEPT ![w] = "outer_error"]
    /\ UNCHANGED <<stored, req, queue, is_processing, sub_pc, w_job, w_resp, clr_pc,
                   clears, superseded, interrupted, general, fileVars, clock,
                   calls, isl_rows, last>>

\* the _update_status of the outer except clause raises: the exception leaves
\* _process_announcement, _process_queue logs it and its finally clause
\* resets is_processing; the ids still in the queue stay there
WorkerOuterErrorFails(w, fault) ==
    /\ w_pc[w] = "outer_error"
    /\ update_status_raises(w_job[w], ERROR, None, None,
                            Some("validation error for TrainAnnouncementRequest"), fault)
    /\ is_processing' = FALSE
    /\ w_pc' = [w_pc EXCEPT ![w] = "finished"]
    /\ w_job' = [w_job EXCEPT ![w] = 0]
    /\ w_resp' = [w_resp EXCEPT ![w] = NoResponse]
    /\ UNCHANGED <<stored, req, queue, sub_pc, clr_pc, clears, superseded,
                   interrupted, general, fileVars, clock, calls, isl_rows, last>>

NextFault ==
    \/ Next
    \/ \E w \in JobIds, fault \in Faults : WorkerProcessingFails(w, fault)
    \/ \E w \in JobIds, fault \in Faults : WorkerBuildFails(w, fault)
    \/ \E w \in JobIds, fault \in Faults : WorkerTerminalFails(w, fault)
    \/ \E w \in JobIds : WorkerInnerError(w)
    \/ \E w \in JobIds, fault \in Faults : WorkerInnerErrorFails(w, fault)
    \/ \E w \in JobIds, fault \in Faults : WorkerOuterErrorFails(w, fault)

SpecFault == Init /\ [][NextFault]_vars

\* The event loop runs every task that can continue: a _process_queue task
\* takes its next step, an add_announcement or clear call comes back from its
\* await. Whether a status update raises is not up to the scheduler.
WorkerStep(w) ==
    \/ WorkerStart(w) \/ WorkerSelect(w) \/ WorkerProcessing(w) \/ WorkerBuild(w)
    \/ WorkerTerminal(w) \/ WorkerInnerError(w) \/ WorkerOuterError(w)

\* the await on generate_train_announcement comes back (the external tool is
\* run with a timeout); what it returns is up to the surroundings
GenerateReturns(w) ==
    /\ w_pc[w] = "generate"
    /\ w_pc' = [w_pc EXCEPT ![w] = "terminal"]

SubmitStep(j) == SubmitInsert(j) \/ SubmitPut(j) \/ SubmitStart(j)

Fairness ==
    /\ \A w \in JobIds : WF_vars(WorkerStep(w)) /\ WF_w_pc(GenerateReturns(w))
    /\ \A j \in JobIds : WF_vars(SubmitStep(j))
    /\ WF_vars(ClearDrain)

SpecFair == Spec /\ Fairness

SpecFaultFair == SpecFault /\ Fairness

\* ------------------------------------------- direct calls of the pipeline
\* uuid[:8]: two ids can share their first eight characters
Prefix8(vid) == (vid + 1) \div 2

FinalFilename(vid, now) == <<"isl_video_", now, Prefix8(vid)>>

\* Variant: the temporary file is copied, not moved.
save_isl_video_copy(vid, user, now, files, final) ==
    IF vid \notin files
    THEN [status |-> 404, staging |-> files, permanent |-> final, url |-> None]
    ELSE [status |-> 200,
          staging |-> files,
          permanent |-> final \cup {[user |-> user, filename |-> FinalFilename(vid, now)]},
          url |-> Some(<<"/api/v1/isl-videos/serve/", user, FinalFilename(vid, now)>>)]

\* save_isl_video: 404 when the temporary file is not there, otherwise the
\* file is moved to FINAL_VIDEOS_DIR/user_{user_id}/{final_filename}
save_isl_video(vid, user, now, files, final) ==
    IF vid \notin files
    THEN [status |-> 404, staging |-> files, permanent |-> final, url |-> None]
    ELSE [status |-> 200,
          staging |-> files \ {vid},
          permanent |-> final \cup {[user |-> user, filename |-> FinalFilename(vid, now)]},
          url |-> Some(<<"/api/v1/isl-videos/serve/", user, FinalFilename(vid, now)>>)]

\* get_preview_video: 404 when the temporary file is not there
get_preview_video(vid, files) == IF vid \in files THEN 200 ELSE 404

\* Variant: the unlink is left out.
cleanup_temp_video_keep(vid, files) == files

\* cleanup_temp_video: unlink when the file exists
cleanup_temp_video(vid, files) == files \ {vid}

\* cleanup_temp_videos: every *.mp4 of TEMP_VIDEOS_DIR is unlinked
cleanup_temp_videos(files) == [staging |-> {}, deleted_count |-> Cardinality(files)]

Call(op, vid, user, status, save, env, raised, response) ==
    [op |-> op, id |-> vid, user |-> user, status |-> status, save |-> save,
     template |-> env.template, raised |-> raised, response |-> response,
     pipe |-> NoPipe]

\* TrainAnnouncementService.generate_train_announcement called with either
\* value of save_to_general_announcements
Orchestrate(request, save, env) ==
    /\ calls < MaxCalls
    /\ \E res \in {generate_train_announcement(request, save, env, general, staging,
                                                manifests, nextVid)} :
           /\ general' = res.general
           /\ staging' = res.staging
           /\ manifests' = res.manifests
           /\ nextVid' = IF res.issued THEN nextVid + 1 ELSE nextVid
           /\ last' = [Call("orchestrate", 0, request.user_id,
                            IF res.response.success THEN 200 ELSE 400, save, env,
                            res.raised, res.response)
                          EXCEPT !.pipe = [NoPipe EXCEPT !.env = env,
                                                         !.request = Some(request)]]
    /\ calls' = calls + 1
    /\ UNCHANGED <<liveVars, permanent, clock, isl_rows>>

TrainGenerate(request, env) ==
    /\ calls < MaxCalls
    /\ nextVid < MaxVideos
    /\ \E a \in {generate_train_announcement(request, TRUE, env, general, staging,
                                               manifests, nextVid)} :
       \E res \in {train_announcements_generate(request, env, a, nextVid)} :
           /\ general' = res.general
           /\ staging' = res.staging
           /\ manifests' = res.manifests
           /\ nextVid' = res.next
           /\ last' = [Call("train_generate", 0, request.user_id, res.status, TRUE, env,
                            None, res.response)
                          EXCEPT !.pipe = [NoPipe EXCEPT !.env = env,
                                                         !.request = Some(request)]]
    /\ calls' = calls + 1
    /\ UNCHANGED <<liveVars, permanent, clock, isl_rows>>

GetPreview(vid) ==
    /\ last' = Call("get_preview", vid, 0, get_preview_video(vid, staging), FALSE,
                    NoEnv, None, NoResponse)
    /\ UNCHANGED <<liveVars, general, fileVars, clock, calls, isl_rows>>

Save(vid, user) ==
    /\ LET res == save_isl_video(vid, user, clock, staging, permanent)
       IN  /\ staging' = res.staging
           /\ permanent' = res.permanent
           /\ last' = Call("save", vid, user, res.status, FALSE, NoEnv, None, NoResponse)
    /\ UNCHANGED <<liveVars, general, manifests, nextVid, clock, calls, isl_rows>>

\* cleanup_temp_video_endpoint: the body it answers with
CleanupResponse == [NoResponse EXCEPT !.success = TRUE, !.error = None]

Cleanup(vid) ==
    /\ staging' = cleanup_temp_video(vid, staging)
    /\ last' = Call("cleanup", vid, 0, 200, FALSE, NoEnv, None, CleanupResponse)
    /\ UNCHANGED <<liveVars, general, manifests, permanent, nextVid, clock, calls, isl_rows>>

Sweep ==
    /\ staging' = cleanup_temp_videos(staging).staging
    /\ last' = Call("sweep", cleanup_temp_videos(staging).deleted_count, 0, 200, FALSE,
                    NoEnv, None, NoResponse)
    /\ UNCHANGED <<liveVars, general, manifests, permanent, nextVid, clock, calls, isl_rows>>

Tick ==
    /\ clock < MaxTicks
    /\ clock' = clock + 1
    /\ UNCHANGED <<liveVars, general, fileVars, calls, isl_rows, last>>

NextOrch ==
    \/ \E request \in TrainRequests, save \in BOOLEAN, env \in OrchEnvs :
          Orchestrate(request, save, env)
    \/ \E request \in TrainRequests, env \in OrchEnvs : TrainGenerate(request, env)
    \/ \E vid \in VideoIds : GetPreview(vid)
    \/ \E vid \in VideoIds, user \in UserIds : Save(vid, user)
    \/ \E vid \in VideoIds : Cleanup(vid)
    \/ Sweep
    \/ Tick

SpecOrch == InitOrch /\ [][NextOrch]_vars

\* --------------------------------------- direct calls of video generation
\* Texts sent to POST /isl-video-generation/generate
VideoTexts ==
    {<<>>, <<" ">>, <<".", " ", "!">>, <<"Train">>, <<"Train", " ", "5">>,
     <<"Train", " ", "Pune", " ", "5">>, <<"5", "5", " ", "Train">>}

VideoModels == {"male", "robot"}

\* The surroundings of a generate call: the sign files on disk, the model
\* directory and the behaviour of the external tool.
VideoEnvs ==
    {e \in Envs :
        /\ e.template = None /\ e.translations = None
        /\ \/ e.model_dir /\ e.tool = "ok" /\ ~e.partial
           \/ e.model_dir /\ e.tool # "ok" /\ e.files = FilesFull
           \/ ~e.model_dir /\ e.tool = "ok" /\ ~e.partial /\ e.files = FilesFull}

\* status_code of the HTTPException generate_isl_video ends with
HttpStatus(raised) ==
    IF raised = None THEN 200
    ELSE IF raised[1] \in {"Unsupported model", "Text cannot be empty",
                           "No valid signs found in text",
                           "No video files found for any signs"}
         THEN 400 ELSE 500

\* the answer of generate_isl_video, in the shape the calls are recorded in
VideoAnswer(res) ==
    IF res.raised # None THEN FailedResponse(res.raised[1])
    ELSE [NoResponse EXCEPT !.success = res.response.success,
                            !.temp_video_id = res.response.temp_video_id,
                            !.preview_url = res.response.preview_url,
                            !.error = None,
                            !.signs_used = res.response.signs_used,
                            !.signs_skipped = res.response.signs_skipped]

\* Variant: the identifier is issued before the request is validated.
Generate_early(text, model, env) ==
    /\ nextVid <= MaxVideos
    /\ \E res \in {generate_isl_video(text, model, nextVid, env, staging, manifests)} :
           /\ staging' = res.staging
           /\ manifests' = res.manifests
           /\ nextVid' = nextVid + 1
           /\ last' = [Call("generate", IF res.issued THEN nextVid ELSE 0, 0,
                            HttpStatus(res.raised), FALSE, NoEnv, res.raised,
                            VideoAnswer(res))
                          EXCEPT !.pipe = [NoPipe EXCEPT !.text = text, !.model = model,
                                                         !.env = env,
                                                         !.found = res.found,
                                                         !.filelist = res.filelist]]
    /\ UNCHANGED <<liveVars, general, permanent, clock, calls, isl_rows>>

\* POST /isl-video-generation/generate
Generate(text, model, env) ==
    /\ nextVid <= MaxVideos
    /\ \E res \in {generate_isl_video(text, model, nextVid, env, staging, manifests)} :
           /\ staging' = res.staging
           /\ manifests' = res.manifests
           /\ nextVid' = IF res.issued THEN nextVid + 1 ELSE nextVid
           /\ last' = [Call("generate", IF res.issued THEN nextVid ELSE 0, 0,
                            HttpStatus(res.raised), FALSE, NoEnv, res.raised,
                            VideoAnswer(res))
                          EXCEPT !.pipe = [NoPipe EXCEPT !.text = text, !.model = model,
                                                         !.env = env,
                                                         !.found = res.found,
                                                         !.filelist = res.filelist]]
    /\ UNCHANGED <<liveVars, general, permanent, clock, calls, isl_rows>>

NextVideo ==
    \/ \E text \in VideoTexts, model \in VideoModels, env \in VideoEnvs :
          Generate(text, model, env)
    \/ \E vid \in VideoIds : GetPreview(vid)
    \/ \E vid \in VideoIds, user \in UserIds : Save(vid, user)
    \/ \E vid \in VideoIds : Cleanup(vid)
    \/ Sweep
    \/ Tick

SpecVideo == Init /\ [][NextVideo]_vars

\* ------------------------------------- single steps of the video pipeline
\* Each behaviour applies one step of the pipeline to one input.
MaxLen == 4
MaxTokens == 3
MaxTemplate == 3

\* Texts handed to parse_text_to_signs: every text of up to MaxLen symbols
\* and the two texts "Train 123 arriving" and "Go 5".
TextAlphabet == {"Train", "go", "1", "2", " ", "."}

TextsUpTo(n) == UNION {[1..k -> TextAlphabet] : k \in 0..n}

TokenTexts ==
    TextsUpTo(MaxLen) \cup {<<"Train", " ", "1", "2", "3", " ", "arriving">>,
                            <<"Go", " ", "5">>}

\* parse_text_to_signs(text)
Tokenize(text) ==
    /\ last.op = "none"
    /\ last' = [Call("tokenize", 0, 0, 200, FALSE, NoEnv, None, NoResponse)
                   EXCEPT !.pipe = [NoPipe EXCEPT !.text = text,
                                                  !.signs = parse_text_to_signs(text)]]
    /\ UNCHANGED <<liveVars, general, fileVars, clock, calls, isl_rows>>

\* Token lists and sign libraries handed to get_video_files_for_signs
TokenPool == {<<"train">>, <<"5">>, <<"xyz">>}

TokenLists == UNION {[1..k -> TokenPool] : k \in 0..MaxTokens}

LibraryPaths ==
    {VideoPath("male", "direct", <<"train">>, "MP4"),
     VideoPath("male", "nested", <<"train">>, "mp4"),
     VideoPath("male", "direct", <<"5">>, "mov"),
     VideoPath("male", "direct", <<"5">>, "avi"),
     VideoPath("male", "nested", <<"5">>, "MP4"),
     VideoPath("male", "nested", <<"5">>, "mp4"),
     VideoPath("female", "direct", <<"xyz">>, "mp4")}

\* get_video_files_for_signs(signs, model), the model directory being there
Resolve(signs, model, files) ==
    /\ last.op = "none"
    /\ \E res \in {get_video_files_for_signs(signs, model, files)} :
           last' = [Call("resolve", 0, 0, 200, FALSE, NoEnv, None, NoResponse)
                      EXCEPT !.pipe = [NoPipe EXCEPT !.signs = signs, !.model = model,
                                                     !.files = files,
                                                     !.found = res.found,
                                                     !.missing = res.missing]]
    /\ UNCHANGED <<liveVars, general, fileVars, clock, calls, isl_rows>>

\* Template texts: known placeholders, an unknown one and plain text
TemplateAlphabet == KnownPlaceholders \cup {"{coach}", "at"}

TemplateTexts == UNION {[1..k -> TemplateAlphabet] : k \in 0..MaxTemplate}

\* The values a template is filled with. train_name and the station names
\* are free text of the request: they can contain braces.
SubstitutionValues ==
    [train_number : {ValidTrainNumber},
     train_name : {<<"Express">>, <<"{platform}">>, <<"{coach}">>},
     from_station : {<<"Pune">>, <<"{train_name}">>},
     to_station : {<<"Mumbai">>},
     platform : {5, 12}]

\* _substitute_template_placeholders(template_text, ...)
Substitute(template_text, v) ==
    /\ last.op = "none"
    /\ last' = [Call("substitute", 0, 0, 200, FALSE, NoEnv, None, NoResponse)
                   EXCEPT !.pipe = [NoPipe EXCEPT
                       !.text = template_text,
                       !.request = Some(v),
                       !.substituted =
                           substitute_template_placeholders(template_text,
                               v.train_number, v.train_name, v.from_station,
                               v.to_station, v.platform)]]
    /\ UNCHANGED <<liveVars, general, fileVars, clock, calls, isl_rows>>

NextPipe ==
    \/ \E text \in TokenTexts : Tokenize(text)
    \/ \E signs \in TokenLists, files \in SUBSET LibraryPaths : Resolve(signs, "male", files)
    \/ \E template_text \in TemplateTexts, v \in SubstitutionValues :
          Substitute(template_text, v)

SpecPipe == Init /\ [][NextPipe]_vars

\* ------------------------------------------- deletion of announcements
\* The place of a deleted row in the table; a row that is there has id = its
\* position.
DeletedRow ==
    [id |-> 0, category |-> "", model |-> "",
     announcement_text_english |-> <<>>,
     announcement_text_hindi |-> None, announcement_text_marathi |-> None,
     announcement_text_gujarati |-> None, isl_video_path |-> None]

\* The next row gets max(id) + 1: deleted rows at the end of the table free
\* their ids.
RECURSIVE DropDeletedTail(_)
DropDeletedTail(rows) ==
    IF rows # <<>> /\ rows[Len(rows)] = DeletedRow
    THEN DropDeletedTail(SubSeq(rows, 1, Len(rows) - 1))
    ELSE rows

RowIds == 1..(MaxCalls + 1)

get_announcement(rows, id) ==
    IF id \in DOMAIN rows /\ rows[id].id = id THEN Some(rows[id]) ELSE None

\* final_video_url of a file of FINAL_VIDEOS_DIR, as save_isl_video returns it
FinalUrl(file) == <<"/api/v1/isl-videos/serve/", file.user, file.filename>>

\* _delete_video_file: a path that starts with /api/v1/isl-videos/serve/ is
\* taken for uploads/isl-videos/user_1/{last component}; any other path is
\* used as it is, and a preview reference used as a path names no file.
\* unlink_ok tells whether the unlink of an existing file succeeds.
delete_video_file(video_path, unlink_ok, final) ==
    LET file_path == IF video_path[1] = "/api/v1/isl-videos/serve/"
                     THEN Some([user |-> 1, filename |-> video_path[Len(video_path)]])
                     ELSE None
    IN  IF file_path # None /\ file_path[1] \in final
        THEN IF unlink_ok
             THEN [deleted |-> TRUE, permanent |-> final \ {file_path[1]}]
             ELSE [deleted |-> FALSE, permanent |-> final]
        ELSE [deleted |-> TRUE, permanent |-> final]

\* hard_delete_announcement: False when the row is not there; otherwise the
\* file is deleted as far as _delete_video_file manages and the row is
\* deleted whatever that returned
hard_delete_announcement(rows, id, unlink_ok, final) ==
    LET row == get_announcement(rows, id)
        del == IF row[1].isl_video_path # None
               THEN delete_video_file(row[1].isl_video_path[1], unlink_ok, final)
               ELSE [deleted |-> TRUE, permanent |-> final]
    IN  IF row = None
        THEN [found |-> FALSE, general |-> rows, permanent |-> final]
        ELSE [found |-> TRUE,
              general |-> DropDeletedTail([rows EXCEPT ![id] = DeletedRow]),
              permanent |-> del.permanent]

\* DELETE /general-announcements/{announcement_id}
HardDelete(id, unlink_ok) ==
    /\ \E res \in {hard_delete_announcement(general, id, unlink_ok, permanent)} :
           /\ general' = res.general
           /\ permanent' = res.permanent
           /\ last' = Call("hard_delete", id, 0, IF res.found THEN 200 ELSE 404,
                           FALSE, NoEnv, None, NoResponse)
    /\ UNCHANGED <<liveVars, staging, manifests, nextVid, clock, calls, isl_rows>>

\* PUT /general-announcements/{announcement_id}/video-path with the
\* final_video_url of a saved video
UpdateVideoPath(id, video_path) ==
    /\ general' = update_video_path(general, id, video_path)
    /\ last' = Call("update_video_path", id, 0,
                    IF get_announcement(general, id) # None THEN 200 ELSE 404,
                    FALSE, NoEnv, None, NoResponse)
    /\ UNCHANGED <<liveVars, fileVars, clock, calls, isl_rows>>

NextDelete ==
    \/ \E request \in TrainRequests, save \in BOOLEAN, env \in OrchEnvs :
          Orchestrate(request, save, env)
    \/ \E vid \in VideoIds, user \in UserIds : Save(vid, user)
    \/ \E id \in RowIds, file \in permanent : UpdateVideoPath(id, FinalUrl(file))
    \/ \E id \in RowIds, unlink_ok \in BOOLEAN : HardDelete(id, unlink_ok)

SpecDelete == InitOrch /\ [][NextDelete]_vars

\* --------------------------------------------- ISL announcement records
\* ISLAnnouncementService.create_announcement: video_generation_status has
\* the column default 'pending'
NewIslRow == [video_generation_status |-> "pending", temp_video_id |-> None,
              preview_url |-> None]

\* ISLAnnouncementService.update_video_info: the fields that are set in
\* video_update are written to the row; no row, no change
update_video_info(rows, id, fields) ==
    IF rows[id] = None THEN rows
    ELSE [rows EXCEPT ![id] =
             Some([f \in DOMAIN @[1] |->
                      IF f \in DOMAIN fields THEN fields[f] ELSE @[1][f]])]

\* POST /isl-announcements/ : a new row
CreateIslAnnouncement(id) ==
    /\ isl_rows[id] = None
    /\ \A k \in IslIds : k < id => isl_rows[k] # None
    /\ isl_rows' = [isl_rows EXCEPT ![id] = Some(NewIslRow)]
    /\ last' = Call("isl_create", id, 0, 200, FALSE, NoEnv, None, NoResponse)
    /\ UNCHANGED <<liveVars, general, fileVars, clock, calls>>

\* POST /isl-announcements/{announcement_id}/generate-video. The request
\* model rejects an empty text and a model other than male or female (422);
\* 404 when the row does not exist. generate_isl_video either returns a
\* response with success=True or raises an HTTPException, which the handler
\* raises again.
GenerateIslVideo(id, text, model, env) ==
    /\ nextVid <= MaxVideos
    /\ IF text = <<>> \/ model \notin SUPPORTED_MODELS
       THEN /\ last' = Call("isl_generate_video", id, 0, 422, FALSE, NoEnv, None,
                            NoResponse)
            /\ UNCHANGED <<isl_rows, staging, manifests, nextVid>>
       ELSE IF isl_rows[id] = None
       THEN /\ last' = Call("isl_generate_video", id, 0, 404, FALSE, NoEnv,
                            Some("Announcement not found"), NoResponse)
            /\ UNCHANGED <<isl_rows, staging, manifests, nextVid>>
       ELSE \E generating \in {update_video_info(isl_rows, id,
                                     [video_generation_status |-> "generating"])} :
            \E res \in {generate_isl_video(text, model, nextVid, env, staging,
                                           manifests)} :
               /\ isl_rows' =
                     IF res.raised # None THEN generating
                     ELSE IF res.response.success
                     THEN update_video_info(generating, id,
                              [temp_video_id |-> res.response.temp_video_id,
                               preview_url |-> res.response.preview_url,
                               video_generation_status |-> "completed"])
                     ELSE update_video_info(generating, id,
                              [video_generation_status |-> "failed"])
               /\ staging' = res.staging
               /\ manifests' = res.manifests
               /\ nextVid' = IF res.issued THEN nextVid + 1 ELSE nextVid
               /\ last' = Call("isl_generate_video", id, 0, HttpStatus(res.raised),
                               FALSE, NoEnv, res.raised, VideoAnswer(res))
    /\ UNCHANGED <<liveVars, general, permanent, clock, calls>>

NextIsl ==
    \/ \E id \in IslIds : CreateIslAnnouncement(id)
    \/ \E id \in IslIds, text \in VideoTexts, model \in VideoModels, env \in VideoEnvs :
          GenerateIslVideo(id, text, model, env)

SpecIsl == Init /\ [][NextIsl]_vars

\* ------------------------------------------------------------ properties
\* tasks that have started and not yet left _process_queue
Running == {w \in JobIds : w_pc[w] \notin {"none", "scheduled", "finished"}}

\* tasks whose job is between its PROCESSING update and its last update
MidFlight == {w \in JobIds : w_pc[w] \in {"build", "generate", "terminal", "outer_error"}}

\* C1: at most one live announcement row is active in storage at any time,
\* whatever the interleaving of the add_announcement calls.
C1_AtMostOneActive == Cardinality(ActiveRows(stored, rec)) <= 1

\* C2: at most one _process_queue task is scheduled or running, and at most
\* one job is between PROCESSING and its terminal status.
C2_SingleWorker ==
    /\ Cardinality(Running \cup {w \in JobIds : w_pc[w] = "scheduled"}) <= 1
    /\ Cardinality(MidFlight) <= 1

Lifecycles ==
    {<<RECEIVED, PROCESSING, GENERATING_VIDEO, t>> : t \in {COMPLETED, ERROR}}

C4_StatusOrder ==
    \A j \in JobIds :
        /\ \E l \in Lifecycles :
              Len(recorded[j]) <= Len(l) /\ recorded[j] = SubSeq(l, 1, Len(recorded[j]))
        /\ \E l \in Lifecycles :
              Len(published[j]) <= Len(l) /\ published[j] = SubSeq(l, 1, Len(published[j]))

C6_InFlightCompletes ==
    \A j \in interrupted :
        (\A w \in JobIds : w_job[w] # j) =>
            /\ recorded[j] # <<>> /\ recorded[j][Len(recorded[j])] \in {COMPLETED, ERROR}
            /\ published[j] # <<>> /\ published[j][Len(published[j])] \in {COMPLETED, ERROR}

\* C7: when the template was found and the video generation failed, the
\* orchestrator returns success with the generated text and the video error,
\* for both values of the flag, and a record it created stays stored.
C7_PartialOutcome ==
    (last.op = "orchestrate" /\ last.template # None /\ last.raised # None) =>
        /\ last.response.success
        /\ last.response.generated_text # None
        /\ last.response.error =
              Some("Announcement created but video generation failed: " \o last.raised[1])
        /\ last.save =>
              /\ general # <<>>
              /\ last.response.announcement_id = Some(Len(general))
              /\ Some(general[Len(general)].announcement_text_english) =
                    last.response.generated_text

\* C8: a call that finds no template fails and changes nothing: no record,
\* no temporary video id, no file in the staging area.
C8_NoTemplateNoEffects ==
    [][(calls' = calls + 1 /\ last'.template = None) =>
          /\ ~last'.response.success
          /\ last'.response.error # None
          /\ last'.response.generated_text = None
          /\ UNCHANGED <<general, staging, manifests, permanent, nextVid>>]_vars

C8_Witness ==
    /\ last.op = "orchestrate" /\ last.template = None
    /\ ~last.response.success
    /\ general # <<>>

\* C9: a call with save_to_general_announcements=False leaves the rows of
\* general_announcements as they were, whatever its outcome.
C9_SkipPersistKeepsRecords ==
    [][(calls' = calls + 1 /\ ~last'.save) => general' = general]_vars

C9_Witness ==
    /\ last.op = "orchestrate" /\ ~last.save
    /\ last.response.success /\ last.response.preview_url # None
    /\ general # <<>>

\* C10: get_preview and save on an id without a staging file answer 404 and
\* change nothing; save on an id with a staging file succeeds and consumes it,
\* so a second save of the same id answers 404.
C10_ConsumedIsNotFound ==
    [][(last' # last /\ last'.op \in {"get_preview", "save"}) =>
          IF last'.id \notin staging
          THEN /\ last'.status = 404
               /\ UNCHANGED <<general, staging, manifests, permanent, nextVid>>
          ELSE /\ last'.status = 200
               /\ last'.op = "save" => last'.id \notin staging']_vars

C10_Witness ==
    /\ last.op = "save" /\ last.status = 404
    /\ last.id < nextVid
    /\ \E f \in permanent : f.filename[3] = Prefix8(last.id) /\ f.user = last.user

\* C11: a successful save_isl_video(id, user) leaves no staging file for id
\* and exactly one new file in that user's permanent directory, every file
\* that was there before being kept.
C11_PromoteMovesToNewFile ==
    [][\A vid \in VideoIds, user \in UserIds :
          (Save(vid, user) /\ vid \in staging) =>
              /\ vid \notin staging'
              /\ permanent \subseteq permanent'
              /\ Cardinality(permanent' \ permanent) = 1
              /\ \A f \in permanent' \ permanent : f.user = user]_vars

C13_SweepEmptiesStagingArea ==
    [][Sweep =>
          /\ staging' = {}
          /\ manifests' = {}
          /\ last'.id = Cardinality(staging) + Cardinality(manifests)]_vars

\* The tokens the claim describes, read off the text from left to right:
\* NotPunctuation keeps the symbols that survive the stripping, WordEnd is
\* the last position of the word that starts at i.
NotPunctuation(s) == s \notin Punctuation

RECURSIVE WordEnd(_, _)
WordEnd(c, i) == IF i < Len(c) /\ c[i + 1] \notin Blanks THEN WordEnd(c, i + 1) ELSE i

RECURSIVE TokensFrom(_, _)
TokensFrom(c, i) ==
    IF i > Len(c) THEN <<>>
    ELSE IF c[i] \in Blanks THEN TokensFrom(c, i + 1)
    ELSE LET j == WordEnd(c, i)
         IN  (IF j > i /\ \A k \in i..j : c[k] \in Digits
              THEN [k \in 1..(j - i + 1) |-> <<c[i + k - 1]>>]
              ELSE <<SubSeq(c, i, j)>>) \o TokensFrom(c, j + 1)

ExpectedTokens(text) ==
    TokensFrom(SelectSeq([i \in 1..Len(text) |-> Lower(text[i])], NotPunctuation), 1)

\* C14: parse_text_to_signs returns the words of the lower-cased text without
\* its punctuation, in order, every number of two or more digits replaced by
\* its digits; "Train 123 arriving" gives train, 1, 2, 3, arriving and "Go 5"
\* gives go, 5.
C14_TokenizeContract ==
    last.op = "tokenize" =>
        /\ last.pipe.signs = ExpectedTokens(last.pipe.text)
        /\ last.pipe.text = <<"Train", " ", "1", "2", "3", " ", "arriving">> =>
              last.pipe.signs = <<<<"train">>, <<"1">>, <<"2">>, <<"3">>, <<"arriving">>>>
        /\ last.pipe.text = <<"Go", " ", "5">> =>
              last.pipe.signs = <<<<"go">>, <<"5">>>>

C14_Witness ==
    /\ last.op = "tokenize"
    /\ last.pipe.text = <<"Train", " ", "1", "2", "3", " ", "arriving">>
    /\ last.pipe.signs = <<<<"train">>, <<"1">>, <<"2">>, <<"3">>, <<"arriving">>>>

\* C15: a generate call whose input is in error (blank text, text without
\* tokens, an unsupported model, no directory for the model) ends in an
\* error, issues no identifier and changes neither the staging area nor any
\* record.
C15_InputErrorCreatesNothing ==
    [][(/\ last'.op = "generate" /\ clock' = clock
        /\ \/ last'.pipe.model \notin {"male", "female"}
           \/ IsBlankText(last'.pipe.text)
           \/ parse_text_to_signs(last'.pipe.text) = <<>>
           \/ ~last'.pipe.env.model_dir)
       => /\ last'.raised # None /\ last'.status # 200
          /\ ~last'.response.success /\ last'.response.temp_video_id = None
          /\ last'.id = 0
          /\ UNCHANGED <<nextVid, staging, manifests, permanent, general, liveVars>>]_vars

C15_Witness ==
    /\ last.op = "generate" /\ ~last.pipe.env.model_dir
    /\ last.pipe.model = "male" /\ parse_text_to_signs(last.pipe.text) # <<>>
    /\ last.status = 500 /\ last.id = 0
    /\ staging # {}

\* C16: get_video_files_for_signs splits the signs into found and missing:
\* every occurrence of a sign is in exactly one of the two, a sign is missing
\* exactly when none of its eight candidate files exists, and both results
\* keep the order of the signs.
C16_ResolvePartitions ==
    LET p == last.pipe
        HasFile(sign) ==
            \E loc \in {"direct", "nested"}, ext \in {"mp4", "MP4", "avi", "mov"} :
                VideoPath(p.model, loc, sign, ext) \in p.files
        NoFile(sign) == ~HasFile(sign)
    IN  last.op = "resolve" =>
            /\ Len(p.found) + Len(p.missing) = Len(p.signs)
            /\ p.missing = SelectSeq(p.signs, NoFile)
            /\ [i \in 1..Len(p.found) |-> p.found[i].stem] = SelectSeq(p.signs, HasFile)
            /\ \A i \in 1..Len(p.found) :
                   p.found[i] \in p.files /\ p.found[i].model = p.model

C16_Witness ==
    /\ last.op = "resolve"
    /\ last.pipe.signs = <<(<<"train">>), (<<"5">>), (<<"xyz">>)>>
    /\ Len(last.pipe.found) = 2
    /\ last.pipe.missing = <<(<<"xyz">>)>>

\* A sign resolves when the directory of the model is there and one of the
\* eight candidate files of the sign exists.
TokenResolves(sign, model, env) ==
    /\ env.model_dir
    /\ \E loc \in {"direct", "nested"}, ext \in {"mp4", "MP4", "avi", "mov"} :
           VideoPath(model, loc, sign, ext) \in env.files

\* C17 as stated: generate produces a staging video whenever at least one
\* token resolves and reports the other tokens in signs_skipped; when no
\* token resolves it ends in an error and creates no identifier and no
\* staging file.
C17_ResolvedMeansVideo ==
    [][(last'.op = "generate" /\ clock' = clock) =>
          \E tokens \in {parse_text_to_signs(last'.pipe.text)} :
              LET Hit(s) == TokenResolves(s, last'.pipe.model, last'.pipe.env)
                  Miss(s) == ~TokenResolves(s, last'.pipe.model, last'.pipe.env)
              IN  IF \E i \in 1..Len(tokens) : Hit(tokens[i])
                  THEN /\ last'.raised = None /\ last'.response.success
                       /\ last'.response.temp_video_id = Some(last'.id)
                       /\ last'.id \in staging'
                       /\ last'.response.signs_skipped = SelectSeq(tokens, Miss)
                  ELSE /\ last'.raised # None /\ ~last'.response.success
                       /\ last'.response.temp_video_id = None /\ last'.id = 0
                       /\ staging' = staging /\ nextVid' = nextVid]_vars

\* C17, amended: the same, for the calls whose concatenation does not fail
\* (one resolved clip, which is copied, or an ffmpeg run that succeeds).
C17_ResolvedAndStitchedMeansVideo ==
    [][(last'.op = "generate" /\ clock' = clock) =>
          \E tokens \in {parse_text_to_signs(last'.pipe.text)} :
              LET Hit(s) == TokenResolves(s, last'.pipe.model, last'.pipe.env)
                  Miss(s) == ~TokenResolves(s, last'.pipe.model, last'.pipe.env)
              IN  \E used \in {SelectSeq(tokens, Hit)} :
                      IF used # <<>>
                      THEN \/ Len(used) > 1 /\ last'.pipe.env.tool # "ok"
                           \/ /\ last'.raised = None /\ last'.response.success
                              /\ last'.response.temp_video_id = Some(last'.id)
                              /\ last'.id \in staging'
                              /\ last'.response.signs_skipped = SelectSeq(tokens, Miss)
                      ELSE /\ last'.raised # None /\ ~last'.response.success
                           /\ last'.response.temp_video_id = None /\ last'.id = 0
                           /\ staging' = staging /\ nextVid' = nextVid]_vars

C17_Witness ==
    /\ last.op = "generate" /\ last.response.success
    /\ last.response.signs_skipped # <<>>
    /\ Len(last.response.signs_used) > 1
    /\ last.id \in staging

\* C18: the signs_used a successful generate returns are the tokens that
\* resolve, in the order of the text, and signs_skipped the tokens that do
\* not; when every token resolves signs_used is the whole token list and
\* signs_skipped is empty.
C18_SignsUsedAndSkipped ==
    LET p == last.pipe
        tokens == parse_text_to_signs(p.text)
        Hit(s) == TokenResolves(s, p.model, p.env)
        Miss(s) == ~TokenResolves(s, p.model, p.env)
    IN  (last.op = "generate" /\ last.response.success) =>
            /\ last.response.signs_used = SelectSeq(tokens, Hit)
            /\ last.response.signs_skipped = SelectSeq(tokens, Miss)
            /\ (\A i \in 1..Len(tokens) : Hit(tokens[i])) =>
                   /\ last.response.signs_used = tokens
                   /\ last.response.signs_skipped = <<>>

C18_Witness ==
    /\ last.op = "generate" /\ last.response.success
    /\ last.response.signs_used = parse_text_to_signs(last.pipe.text)
    /\ last.response.signs_used = <<(<<"train">>), (<<"5">>)>>
    /\ last.response.signs_skipped = <<>>

\* C20: when the concatenation fails (ffmpeg exits non-zero or runs into
\* the timeout), generate ends in an error and no file is left at the
\* output path {id}.mp4 of the staging area.
C20_FailedConcatLeavesNoOutput ==
    LET p == last.pipe
        tokens == parse_text_to_signs(p.text)
        Hit(s) == TokenResolves(s, p.model, p.env)
    IN  (/\ last.op = "generate"
         /\ Len(SelectSeq(tokens, Hit)) > 1
         /\ p.env.tool \in {"fail", "timeout"})
        => /\ last.raised # None /\ last.status = 500
           /\ ~last.response.success
           /\ last.id \notin staging

\* The file a stored video reference denotes: {id}.mp4 of the staging area
\* for a preview reference, the file of FINAL_VIDEOS_DIR/user_{user} for a
\* permanent reference.
ReferencedFileExists(ref, temp, final) ==
    \/ ref[1] = "/isl-video-generation/preview/" /\ ref[2] \in temp
    \/ ref[1] = "/api/v1/isl-videos/serve/"
          /\ [user |-> ref[2], filename |-> ref[3]] \in final

\* C19: deleting a row whose isl_video_path is set removes the row, also
\* when the file cannot be deleted, and when the referenced file (preview
\* or permanent) exists and can be deleted it is gone afterwards.
C19_DeleteRemovesRecordAndFile ==
    [][\A id \in RowIds, unlink_ok \in BOOLEAN :
          (/\ HardDelete(id, unlink_ok)
           /\ get_announcement(general, id) # None
           /\ general[id].isl_video_path # None)
          => /\ get_announcement(general', id) = None
             /\ unlink_ok =>
                   ~ReferencedFileExists(general[id].isl_video_path[1],
                                         staging', permanent')]_vars

\* The text a template stands for: every symbol that is a known placeholder
\* gives way to its value, every other symbol stays.
ValueOf(sym, train_number, train_name, from_station, to_station, platform) ==
    CASE sym = "{train_number}" -> train_number
      [] sym = "{train_name}" -> train_name
      [] sym \in {"{from_station}", "{from_station_name}", "{start_station}"} -> from_station
      [] sym \in {"{to_station}", "{to_station_name}", "{end_station}"} -> to_station
      [] sym = "{platform}" -> Str(platform)
      [] OTHER -> <<sym>>

Filled(template_text, train_number, train_name, from_station, to_station, platform) ==
    Concat([i \in 1..Len(template_text) |->
               ValueOf(template_text[i], train_number, train_name, from_station,
                       to_station, platform)])

\* C21: with an English template text and no translation data the call
\* returns the English text filled in from the request, no Hindi, Marathi or
\* Gujarati text, and the video generated from the English text; a text in
\* another language is there only when its template text is non-empty and
\* the translation data exists.
C21_EnglishOnlyWithoutTranslations ==
    LET env == last.pipe.env
        request == last.pipe.request[1]
        t == last.template[1]
        r == last.response
        english == Filled(t.english, request.train_number, request.train_name,
                          request.from_station_name, request.to_station_name,
                          request.platform)
        tokens == parse_text_to_signs(english)
        Hit(s) == TokenResolves(s, request.model, env)
        Miss(s) == ~TokenResolves(s, request.model, env)
    IN  (last.op = "orchestrate" /\ last.template # None /\ t.english # <<>>) =>
            /\ r.generated_text_hindi # None => (t.hindi # <<>> /\ env.translations # None)
            /\ r.generated_text_marathi # None => (t.marathi # <<>> /\ env.translations # None)
            /\ r.generated_text_gujarati # None => (t.gujarati # <<>> /\ env.translations # None)
            /\ env.translations = None =>
                  /\ r.generated_text = Some(english)
                  /\ r.generated_text_hindi = None
                  /\ r.generated_text_marathi = None
                  /\ r.generated_text_gujarati = None
                  /\ last.raised = None =>
                        /\ r.preview_url # None /\ r.temp_video_id # None
                        /\ r.temp_video_id[1] \in staging
                        /\ r.signs_used = SelectSeq(tokens, Hit)
                        /\ r.signs_skipped = SelectSeq(tokens, Miss)
                  /\ (\E i \in 1..Len(tokens) : Hit(tokens[i])) /\ env.tool = "ok"
                        => last.raised = None

\* C22: the first event published for a job is its 'announcement_received'
\* event, and it is published once: no status update of the job comes before
\* it, whichever task takes the job from the queue.
C22_ReceivedPublishedFirst ==
    \A j \in JobIds :
        published[j] # <<>> =>
            /\ published[j][1] = RECEIVED
            /\ \A i \in 2..Len(published[j]) : published[j][i] # RECEIVED

\* a job that was queued while the task of an earlier job was running, and
\* was then taken by that task
C22_Witness ==
    \E j \in JobIds, w \in JobIds :
        /\ w < j /\ w_job[w] = j /\ w_pc[j] = "none"
        /\ Len(published[j]) >= 2
        /\ published[j][2] = PROCESSING

\* The place of a candidate file in the order of probing: the four files in
\* the model directory before the four in the subdirectory of the sign, and
\* mp4, MP4, avi, mov within each.
Priority(path) ==
    (IF path.loc = "direct" THEN 0 ELSE 4)
    + (CASE path.ext = "mp4" -> 1 [] path.ext = "MP4" -> 2
         [] path.ext = "avi" -> 3 [] OTHER -> 4)

\* C23: the path returned for a resolved sign is the existing candidate of
\* that sign that comes first in the order of probing, and each resolved
\* sign gets exactly one path.
C23_FirstCandidateWins ==
    LET p == last.pipe
        Existing(sign) == {f \in p.files : f.stem = sign /\ f.model = p.model}
        HasFile(sign) == Existing(sign) # {}
        resolved == SelectSeq(p.signs, HasFile)
    IN  last.op = "resolve" =>
            /\ Len(p.found) = Len(resolved)
            /\ \A i \in 1..Len(p.found) :
                   /\ p.found[i] \in Existing(resolved[i])
                   /\ \A f \in Existing(resolved[i]) :
                          Priority(p.found[i]) <= Priority(f)

C23_Witness ==
    /\ last.op = "resolve"
    /\ last.pipe.signs = <<(<<"train">>), (<<"5">>)>>
    /\ last.pipe.files = LibraryPaths
    /\ last.pipe.found = <<VideoPath("male", "direct", <<"train">>, "MP4"),
                            VideoPath("male", "direct", <<"5">>, "avi")>>

\* C24: a concatenation of two or more clips writes a manifest with one line
\* per clip, in the order of the clips, and when the call is over no
\* manifest of that output is left in the staging area.
C24_ManifestWrittenAndRemoved ==
    LET p == last.pipe
    IN  (last.op = "generate" /\ Len(p.found) > 1) =>
            /\ p.filelist # None
            /\ Len(p.filelist[1]) = Len(p.found)
            /\ \A i \in 1..Len(p.found) : p.filelist[1][i] = <<"file", p.found[i]>>
            /\ last.id \notin manifests

\* C25: substitution returns a text in which every occurrence of a known
\* placeholder of the template has given way to its value and every other
\* symbol of the template, unknown placeholders included, stands as written.
C25_KnownReplacedUnknownKept ==
    LET p == last.pipe
        v == p.request[1]
    IN  last.op = "substitute" =>
            /\ last.status = 200
            /\ p.substituted = Filled(p.text, v.train_number, v.train_name,
                                      v.from_station, v.to_station, v.platform)

\* Markers stand for the values while the template is filled in; Expand puts
\* the values in their place afterwards.
Expand(text, v) ==
    Concat([i \in 1..Len(text) |->
               CASE text[i] = "#train_number" -> v.train_number
                 [] text[i] = "#train_name" -> v.train_name
                 [] text[i] = "#from_station" -> v.from_station
                 [] text[i] = "#to_station" -> v.to_station
                 [] OTHER -> <<text[i]>>])

\* C30: a value is inserted as it is and not scanned for placeholders: the
\* result is the same as filling the template with opaque markers and
\* putting the values in the place of the markers afterwards.
C30_ValuesAreNotScanned ==
    LET p == last.pipe
        v == p.request[1]
    IN  last.op = "substitute" =>
            p.substituted =
                Expand(substitute_template_placeholders(p.text, <<"#train_number">>,
                           <<"#train_name">>, <<"#from_station">>, <<"#to_station">>,
                           v.platform), v)

\* C26: an id that is in the queue leaves it, and a job a task has taken up
\* reaches COMPLETED or ERROR unless its row is deleted (by a later submit or
\* a clear), also after a task has ended with an exception.
C26_EveryJobFinishes ==
    \A j \in JobIds :
        /\ (j \in InQueue) ~> (j \notin InQueue)
        /\ (j \in InFlight) ~> (j \notin stored \/ rec[j].status \in {COMPLETED, ERROR})

\* C27: a stored status COMPLETED stays COMPLETED as long as the row is
\* there, and at most one terminal status is published for a job, also when
\* the emit of a status update fails.
C27_TerminalIsAbsorbing ==
    /\ [][\A j \in JobIds :
             (j \in stored /\ rec[j].status = COMPLETED /\ j \in stored')
                 => rec'[j].status = COMPLETED]_vars
    /\ [](\A j \in JobIds :
             Cardinality({i \in 1..Len(published[j]) :
                             published[j][i] \in {COMPLETED, ERROR}}) <= 1)

\* C28: a POST /train-announcements/generate that answers with success and a
\* preview_url has created exactly one staging video, and the preview_url of
\* the answer is the isl_video_path stored in the record it created.
C28_OneVideoPerRequest ==
    [][(last'.op = "train_generate" /\ clock' = clock /\ last'.response.success
           /\ last'.response.preview_url # None)
          => /\ Cardinality(staging' \ staging) = 1
             /\ \E id \in {last'.response.announcement_id[1]} :
                    general'[id].isl_video_path = last'.response.preview_url]_vars

\* C29: when a generate-video call for an existing announcement has returned,
\* with a result or with an error, the video_generation_status of the row is
\* 'completed' or 'failed'.
C29_NeverLeftGenerating ==
    (last.op = "isl_generate_video" /\ last.status \notin {404, 422})
        => isl_rows[last.id][1].video_generation_status \in {"completed", "failed"}

====
